---- MODULE Spec2Model ----
(***************************************************************************)
(* Model of app.py: the Gradio entry point run_slam, which streams the      *)
(* images of an uploaded archive through the keyframe gate, windows the     *)
(* admitted frames into overlapping submaps, runs the submap-completion     *)
(* sequence on the Solver, and exports the scene.                           *)
(*                                                                          *)
(* Image files are named by their number 1..n.  What a file holds (whether  *)
(* it decodes, and the camera position it shows) is learnt when cv2.imread  *)
(* reads it, and stays what it is for every later read of the same archive. *)
(* The Solver, its flow tracker, its graph and its map live outside app.py  *)
(* and are modelled from their contracts.                                   *)
(***************************************************************************)
EXTENDS Integers, Sequences, FiniteSets, TLC

\* ------------------------------------------------------------------ bounds
MaxEntries == 10      \* most entries of an uploaded archive
MaxOther == 1         \* most of them that are no valid image
MaxSubmapSize == 4    \* largest submap_size explored (the slider starts at 4)
MaxRuns == 2          \* invocations of run_slam in one process
MaxRerunEntries == 6  \* largest archive that is submitted again
MaxCallers == 2       \* threads that call get_model at the same time
MaxOtherUpload == 2   \* most valid images in the archive of an overlapping run

\* ------------------------------------------------------- program constants
MinSubmapSize == 4                \* gr.Slider(4, 32, ...) "Submap Size"
MaxLoopsChoices == {0, 1, 2}      \* a part of gr.Slider(0, 5, ...) for max_loops
MinDisparityChoices == {0, 1}     \* a part of gr.Slider(0.0, 100.0, ...)
Positions == {0, 1}               \* camera positions an image can show

VARIABLES
  image_zip,                    \* the upload: [valid, other] entry counts
  files,                        \* files[k]: what image k holds, once read
  submap_size, max_loops, min_disparity,
  use_optical_flow_downsample,
  _model,                       \* module global: the cached VGGT model
  tmp_dir,                      \* "temp_images": the archive extracted into it,
                                \* and the invocation that extracted it
  pc,                           \* where run_slam stands
  image_paths,                  \* sorted valid image names
  solver,                       \* the Solver of this run
  image_names_subset,           \* admitted-frame buffer
  pos,                          \* index of image_name in image_paths
  predictions,                  \* what run_predictions returned
  num_submaps, num_loops, glb_path,
  result,                       \* what run_slam returned
  raised,                       \* the call that raised, "" when none did
  calls,                        \* collaborator calls of this run, in order
  handed,                       \* (frames, max_loops) given to run_predictions,
                                \* and which list object held the frames
  admitted,                     \* frames appended to the buffer, in order
  run,                          \* number of the invocation
  first_result,                 \* what invocation 1 returned
  buf_id,                       \* identity of the list image_names_subset names
  gm                            \* threads inside get_model

config == <<image_zip, submap_size, max_loops, min_disparity,
            use_optical_flow_downsample>>
outputs == <<num_submaps, num_loops, glb_path, result>>
history == <<run, first_result>>
vars == <<image_zip, files, submap_size, max_loops, min_disparity,
          use_optical_flow_downsample, _model, tmp_dir, pc, image_paths,
          solver, image_names_subset, pos, predictions, num_submaps,
          num_loops, glb_path, result, raised, calls, handed, admitted,
          run, first_result, buf_id, gm>>

\* ---------------------------------------------------------------- helpers
Last(s) == s[Len(s)]

Min(a, b) == IF a < b THEN a ELSE b

CeilDiv(a, b) == (a + b - 1) \div b

Count(s, x) == Cardinality({k \in 1..Len(s) : s[k] = x})

SeqRange(s) == {s[k] : k \in 1..Len(s)}

\* An image file: not read yet, or read and holding a picture or garbage.
Unread == [read |-> FALSE, ok |-> FALSE, at |-> 0]
Picture(p) == [read |-> TRUE, ok |-> TRUE, at |-> p]
Garbage == [read |-> TRUE, ok |-> FALSE, at |-> 0]

\* glob.glob(...) filtered on the extension and on "depth": the valid entries
\* of the extracted archive, in directory order (here: descending).
GlobImages(dir) == [k \in 1..dir.valid |-> dir.valid + 1 - k]

RECURSIVE InsertByNumber(_, _)
InsertByNumber(s, x) ==
  IF s = <<>> THEN <<x>>
  ELSE IF x <= Head(s) THEN <<x>> \o s
  ELSE <<Head(s)>> \o InsertByNumber(Tail(s), x)

\* utils.sort_images_by_number: ascending by the number in the file name.
RECURSIVE sort_images_by_number(_)
sort_images_by_number(s) ==
  IF s = <<>> THEN <<>>
  ELSE CHOOSE sorted \in {InsertByNumber(rest, Head(s)) :
                           rest \in {sort_images_by_number(Tail(s))}} : TRUE

\* len(image_paths) == 0
NoValidImagesNever(paths) == FALSE
NoValidImages(paths) == Len(paths) = 0

\* Solver(...): a flow tracker without anchor, an empty map, an empty graph.
NewSolver ==
  [last_kf |-> <<>>, submaps |-> <<>>, loops |-> 0, optimized |-> 0,
   propagated |-> 0]

NoPredictions == [frames |-> <<>>, loops |-> 0]
NoResult == [glb |-> "None", msg |-> "", num_submaps |-> 0, num_loops |-> 0]

\* flow_tracker.compute_disparity(img, min_disparity, False): mean optical
\* flow between the anchor key frame and img; no anchor admits the frame.
Disparity(a, b) == IF a.at >= b.at THEN a.at - b.at ELSE b.at - a.at

EnoughDisparity(last_kf, img, minDisp) ==
  \/ last_kf = <<>>
  \/ Disparity(files[last_kf[1]], img) >= minDisp

\* len(image_names_subset) == submap_size + 1 or image_name == image_paths[-1]
SubmapDueLate(buf, size, name, paths) ==
  Len(buf) = size + 2 \/ name = Last(paths)
SubmapDueNoFlush(buf, size, name, paths) ==
  Len(buf) = size + 1
SubmapDue(buf, size, name, paths) ==
  Len(buf) = size + 1 \/ name = Last(paths)

\* image_names_subset[-1:]
CarryoverDropped(buf) == <<>>
CarryoverTwo(buf) ==
  IF Len(buf) <= 2 THEN buf ELSE SubSeq(buf, Len(buf) - 1, Len(buf))
CarryoverFirst(buf) == IF buf = <<>> THEN <<>> ELSE <<buf[1]>>
Carryover(buf) == IF buf = <<>> THEN <<>> ELSE <<Last(buf)>>

\* the max_loops argument of solver.run_predictions for the next submap
LoopBudgetCumulative(budget, used) == IF used >= budget THEN 0 ELSE budget - used
LoopBudget(budget, used) == budget

\* run_predictions' loop-closure detection: every submap already in the map
\* is a candidate, and at most the budget of them become edges.
DetectLoops(s, budget) == Min(budget, Len(s.submaps))

\* ------------------------------------------------------------- get_model
Callers == 1..MaxCallers

\* The module global _model names no instance (bound = 0) or the instance
\* bound; stage[i] is how far instance i has got; at[c] is where caller c
\* stands in get_model and got[c] what it was returned.
NoModel == [id |-> 0, stage |-> "None"]

GmIdle ==
  [at |-> [c \in Callers |-> "call"],
   got |-> [c \in Callers |-> NoModel],
   bound |-> 0,
   stage |-> [i \in Callers |-> "None"],
   made |-> 0]

\* ------------------------------------------------------------------- Init
InitCommon ==
  /\ image_zip \in {z \in [valid : 0..MaxEntries, other : 0..MaxOther] :
                      z.valid + z.other <= MaxEntries}
  /\ files = [k \in 1..MaxEntries |-> Unread]
  /\ submap_size \in MinSubmapSize..MaxSubmapSize
  /\ max_loops \in MaxLoopsChoices
  /\ min_disparity \in MinDisparityChoices
  /\ _model = "None"
  /\ tmp_dir = [exists |-> FALSE, valid |-> 0, other |-> 0, owner |-> "none"]
  /\ pc = "start"
  /\ image_paths = <<>>
  /\ solver = NewSolver
  /\ image_names_subset = <<>>
  /\ pos = 0
  /\ predictions = NoPredictions
  /\ num_submaps = 0
  /\ num_loops = 0
  /\ glb_path = "None"
  /\ result = NoResult
  /\ raised = ""
  /\ calls = <<>>
  /\ handed = <<>>
  /\ admitted = <<>>
  /\ run = 1
  /\ first_result = NoResult
  /\ buf_id = 0
  /\ gm = GmIdle

\* line 88: use_optical_flow_downsample = True
Init == InitCommon /\ use_optical_flow_downsample = TRUE


\* -------------------------------------------------------------- exceptions
\* A call raises: control passes to the except clause of run_slam.
Raise(op) ==
  /\ pc' = "except"
  /\ raised' = op
  /\ calls' = Append(calls, op)

Call(op, next) ==
  /\ pc' = next
  /\ calls' = Append(calls, op)
  /\ UNCHANGED raised

\* ---------------------------------------------------------------- actions
\* lines 64-74: wipe temp_images, recreate it, extract the archive into it
Extract ==
  /\ pc = "start"
  /\ \/ /\ tmp_dir' = [exists |-> TRUE, valid |-> image_zip.valid,
                       other |-> image_zip.other, owner |-> "self"]
        /\ Call("extractall", "glob")
     \/ /\ tmp_dir' = [exists |-> TRUE, valid |-> 0, other |-> 0,
                       owner |-> "self"]
        /\ Raise("extractall")
  /\ UNCHANGED <<gm, buf_id, config, files, _model, image_paths, solver,
                 image_names_subset, pos, predictions, outputs, handed,
                 admitted, history>>

\* lines 77-86: list the valid images; none: return the input error;
\* otherwise sort them by number
ListImages ==
  /\ pc = "glob"
  /\ IF NoValidImages(GlobImages(tmp_dir))
       THEN /\ image_paths' = GlobImages(tmp_dir)
            /\ result' = [glb |-> "None", msg |-> "no valid images",
                          num_submaps |-> 0, num_loops |-> 0]
            /\ first_result' = IF run = 1 THEN result' ELSE first_result
            /\ pc' = "returned"
       ELSE /\ image_paths' = sort_images_by_number(GlobImages(tmp_dir))
            /\ pc' = "model"
            /\ UNCHANGED <<result, first_result>>
  /\ UNCHANGED <<gm, buf_id, config, files, _model, tmp_dir, solver, image_names_subset,
                 pos, predictions, num_submaps, num_loops, glb_path, raised,
                 calls, handed, admitted, run>>

\* line 91 and get_model, lines 21-37: load the model unless one is cached.
\* _model is bound at line 31, before the weights are fetched at line 33.
GetModel ==
  /\ pc = "model"
  /\ \/ /\ _model = "None"
        /\ _model' = "loaded"
        /\ Call("load_model", "solver")
     \/ /\ _model = "None"
        /\ _model' = "constructed"
        /\ Raise("load_model")
     \/ /\ _model # "None"
        /\ pc' = "solver"
        /\ UNCHANGED <<_model, raised, calls>>
  /\ UNCHANGED <<gm, buf_id, config, files, tmp_dir, image_paths, solver,
                 image_names_subset, pos, predictions, outputs, handed,
                 admitted, history>>

\* lines 93-100: a new Solver and an empty buffer
ConstructSolverLeaky ==
  /\ pc = "solver"
  /\ pos' = 0
  /\ Call("Solver", "for")
  /\ UNCHANGED <<solver, image_names_subset>>
  /\ UNCHANGED <<gm, buf_id, config, files, _model, tmp_dir, image_paths, predictions,
                 outputs, handed, admitted, history>>
ConstructSolver ==
  /\ pc = "solver"
  /\ solver' = NewSolver
  /\ image_names_subset' = <<>>
  /\ buf_id' = buf_id + 1
  /\ pos' = 0
  /\ Call("Solver", "for")
  /\ UNCHANGED <<gm, config, files, _model, tmp_dir, image_paths, predictions,
                 outputs, handed, admitted, history>>

\* line 101: the next image_name, or the end of the loop
NextImage ==
  /\ pc = "for"
  /\ IF pos < Len(image_paths)
       THEN pos' = pos + 1 /\ pc' = "gate"
       ELSE pos' = pos /\ pc' = "vis"
  /\ UNCHANGED <<gm, buf_id, config, files, _model, tmp_dir, image_paths, solver,
                 image_names_subset, predictions, outputs, raised, calls,
                 handed, admitted, history>>

image_name == image_paths[pos]

\* cv2.imread(image_name): what the file holds; None when it is not there
Imread(name) ==
  IF name > tmp_dir.valid THEN {Garbage}
  ELSE IF files[name].read THEN {files[name]}
  ELSE {Picture(p) : p \in Positions} \cup {Garbage}

\* lines 103-106 with an image that decodes: the gate decides
GateFrameAlways ==
  /\ pc = "gate"
  /\ use_optical_flow_downsample
  /\ \E img \in Imread(image_name) :
       /\ img.ok
       /\ files' = [files EXCEPT ![image_name] = img]
       /\ solver' = IF EnoughDisparity(solver.last_kf, img, min_disparity)
                      THEN [solver EXCEPT !.last_kf = <<image_name>>]
                      ELSE solver
       /\ image_names_subset' = Append(image_names_subset, image_name)
       /\ admitted' = Append(admitted, image_name)
  /\ Call("compute_disparity", "check")
  /\ UNCHANGED <<gm, buf_id, config, _model, tmp_dir, image_paths, pos, predictions,
                 outputs, handed, history>>
GateFrame ==
  /\ pc = "gate"
  /\ use_optical_flow_downsample
  /\ \E img \in Imread(image_name) :
       /\ img.ok
       /\ files' = [files EXCEPT ![image_name] = img]
       /\ IF EnoughDisparity(solver.last_kf, img, min_disparity)
            THEN /\ solver' = [solver EXCEPT !.last_kf = <<image_name>>]
                 /\ image_names_subset' = Append(image_names_subset, image_name)
                 /\ admitted' = Append(admitted, image_name)
            ELSE UNCHANGED <<solver, image_names_subset, admitted>>
  /\ Call("compute_disparity", "check")
  /\ UNCHANGED <<gm, buf_id, config, _model, tmp_dir, image_paths, pos, predictions,
                 outputs, handed, history>>

\* lines 103-104 with an image that does not decode: imread returns None and
\* compute_disparity raises on it
GateFrameUnreadable ==
  /\ pc = "gate"
  /\ use_optical_flow_downsample
  /\ \E img \in Imread(image_name) :
       /\ ~img.ok
       /\ files' = [files EXCEPT ![image_name] = img]
  /\ Raise("compute_disparity")
  /\ UNCHANGED <<gm, buf_id, config, _model, tmp_dir, image_paths, solver,
                 image_names_subset, pos, predictions, outputs, handed,
                 admitted, history>>

\* lines 107-108: gating switched off
AppendUngatedViaGate ==
  /\ pc = "gate"
  /\ ~use_optical_flow_downsample
  /\ IF EnoughDisparity(solver.last_kf, Picture(0), min_disparity)
       THEN /\ solver' = [solver EXCEPT !.last_kf = <<image_name>>]
            /\ image_names_subset' = Append(image_names_subset, image_name)
            /\ admitted' = Append(admitted, image_name)
       ELSE UNCHANGED <<solver, image_names_subset, admitted>>
  /\ Call("compute_disparity", "check")
  /\ UNCHANGED <<gm, buf_id, config, files, _model, tmp_dir, image_paths, pos,
                 predictions, outputs, handed, history>>
AppendUngated ==
  /\ pc = "gate"
  /\ ~use_optical_flow_downsample
  /\ image_names_subset' = Append(image_names_subset, image_name)
  /\ admitted' = Append(admitted, image_name)
  /\ pc' = "check"
  /\ UNCHANGED <<gm, buf_id, config, files, _model, tmp_dir, image_paths, solver, pos,
                 predictions, outputs, raised, calls, handed, history>>

\* line 111: is a submap due
CheckSubmap ==
  /\ pc = "check"
  /\ pc' = IF SubmapDue(image_names_subset, submap_size, image_name, image_paths)
             THEN "predict" ELSE "for"
  /\ UNCHANGED <<gm, buf_id, config, files, _model, tmp_dir, image_paths, solver,
                 image_names_subset, pos, predictions, outputs, raised, calls,
                 handed, admitted, history>>

\* line 113: solver.run_predictions(image_names_subset, model, max_loops)
RunPredictions ==
  /\ pc = "predict"
  /\ handed' = Append(handed, [frames |-> image_names_subset,
                               max_loops |-> LoopBudget(max_loops, solver.loops),
                               obj |-> buf_id])
  /\ \/ /\ predictions' =
             [frames |-> image_names_subset,
              loops |-> DetectLoops(solver, LoopBudget(max_loops, solver.loops))]
        /\ Call("run_predictions", "add_points")
     \/ /\ UNCHANGED predictions
        /\ Raise("run_predictions")
  /\ UNCHANGED <<gm, buf_id, config, files, _model, tmp_dir, image_paths, solver,
                 image_names_subset, pos, outputs, admitted, history>>

\* line 114: solver.add_points(predictions)
AddPoints ==
  /\ pc = "add_points"
  /\ \/ /\ solver' = [solver EXCEPT
                        !.submaps = Append(@, predictions.frames),
                        !.loops = @ + predictions.loops]
        /\ Call("add_points", "optimize")
     \/ /\ UNCHANGED solver
        /\ Raise("add_points")
  /\ UNCHANGED <<gm, buf_id, config, files, _model, tmp_dir, image_paths,
                 image_names_subset, pos, predictions, outputs, handed,
                 admitted, history>>

\* line 115: solver.graph.optimize()
OptimizeSkipped ==
  /\ pc = "optimize"
  /\ pc' = "homographies"
  /\ UNCHANGED <<gm, buf_id, config, files, _model, tmp_dir, image_paths, solver,
                 image_names_subset, pos, predictions, outputs, raised, calls,
                 handed, admitted, history>>
Optimize ==
  /\ pc = "optimize"
  /\ \/ /\ solver' = [solver EXCEPT !.optimized = Len(solver.submaps)]
        /\ Call("optimize", "homographies")
     \/ /\ UNCHANGED solver
        /\ Raise("optimize")
  /\ UNCHANGED <<gm, buf_id, config, files, _model, tmp_dir, image_paths,
                 image_names_subset, pos, predictions, outputs, handed,
                 admitted, history>>

\* line 116: solver.map.update_submap_homographies(solver.graph)
UpdateHomographies ==
  /\ pc = "homographies"
  /\ \/ /\ solver' = [solver EXCEPT !.propagated = Len(solver.submaps)]
        /\ Call("update_submap_homographies", "reset")
     \/ /\ UNCHANGED solver
        /\ Raise("update_submap_homographies")
  /\ UNCHANGED <<gm, buf_id, config, files, _model, tmp_dir, image_paths,
                 image_names_subset, pos, predictions, outputs, handed,
                 admitted, history>>

\* line 118: image_names_subset = image_names_subset[-1:] binds the name to
\* a new list holding the last frame only; the list handed to run_predictions
\* is left as it is
ResetBufferInPlace ==
  /\ pc = "reset"
  /\ image_names_subset' = Carryover(image_names_subset)
  /\ pc' = "for"
  /\ UNCHANGED <<gm, buf_id, config, files, _model, tmp_dir, image_paths, solver, pos,
                 predictions, outputs, raised, calls, handed, admitted,
                 history>>
ResetBufferThenFinish ==
  /\ pc = "reset"
  /\ image_names_subset' = Carryover(image_names_subset)
  /\ buf_id' = buf_id + 1
  /\ pc' = "vis"
  /\ UNCHANGED <<gm, config, files, _model, tmp_dir, image_paths, solver, pos,
                 predictions, outputs, raised, calls, handed, admitted,
                 history>>
ResetBuffer ==
  /\ pc = "reset"
  /\ image_names_subset' = Carryover(image_names_subset)
  /\ buf_id' = buf_id + 1
  /\ pc' = "for"
  /\ UNCHANGED <<gm, config, files, _model, tmp_dir, image_paths, solver, pos,
                 predictions, outputs, raised, calls, handed, admitted,
                 history>>

\* line 120: solver.update_all_submap_vis()
UpdateAllSubmapVisSkipped ==
  /\ pc = "vis"
  /\ pc' = "counts"
  /\ UNCHANGED <<gm, buf_id, config, files, _model, tmp_dir, image_paths, solver,
                 image_names_subset, pos, predictions, outputs, raised, calls,
                 handed, admitted, history>>
UpdateAllSubmapVis ==
  /\ pc = "vis"
  /\ \/ Call("update_all_submap_vis", "counts")
     \/ Raise("update_all_submap_vis")
  /\ UNCHANGED <<gm, buf_id, config, files, _model, tmp_dir, image_paths, solver,
                 image_names_subset, pos, predictions, outputs, handed,
                 admitted, history>>

\* lines 122-123: read the two counters
ReadCounts ==
  /\ pc = "counts"
  /\ num_submaps' = Len(solver.submaps)
  /\ num_loops' = solver.loops
  /\ pc' = "export"
  /\ calls' = calls \o <<"get_num_submaps", "get_num_loops">>
  /\ UNCHANGED <<gm, buf_id, config, files, _model, tmp_dir, image_paths, solver,
                 image_names_subset, pos, predictions, glb_path, result,
                 raised, handed, admitted, history>>

\* line 124: solver.export_3d_scene()
Export ==
  /\ pc = "export"
  /\ \/ /\ glb_path' = "scene.glb"
        /\ Call("export_3d_scene", "return")
     \/ /\ UNCHANGED glb_path
        /\ Raise("export_3d_scene")
  /\ UNCHANGED <<gm, buf_id, config, files, _model, tmp_dir, image_paths, solver,
                 image_names_subset, pos, predictions, num_submaps, num_loops,
                 result, handed, admitted, history>>

\* lines 125-126: return glb_path, message
Return ==
  /\ pc = "return"
  /\ result' = [glb |-> glb_path, msg |-> "completed",
                num_submaps |-> num_submaps, num_loops |-> num_loops]
  /\ first_result' = IF run = 1 THEN result' ELSE first_result
  /\ pc' = "returned"
  /\ UNCHANGED <<gm, buf_id, config, files, _model, tmp_dir, image_paths, solver,
                 image_names_subset, pos, predictions, num_submaps, num_loops,
                 glb_path, raised, calls, handed, admitted, run>>

\* lines 128-131: except Exception: return None, error_msg
ErrorResultPartial(path, ns, nl) ==
  [glb |-> "scene.glb", msg |-> "error", num_submaps |-> ns, num_loops |-> nl]
ErrorResult(path, ns, nl) ==
  [glb |-> "None", msg |-> "error", num_submaps |-> 0, num_loops |-> 0]

Handler ==
  /\ pc = "except"
  /\ result' = ErrorResult(glb_path, Len(solver.submaps), solver.loops)
  /\ first_result' = IF run = 1 THEN result' ELSE first_result
  /\ pc' = "returned"
  /\ UNCHANGED <<gm, buf_id, config, files, _model, tmp_dir, image_paths, solver,
                 image_names_subset, pos, predictions, num_submaps, num_loops,
                 glb_path, raised, calls, handed, admitted, run>>

\* lines 138-139 and 175: the interface calls run_slam again, here with the
\* same upload and settings.  The locals of the new call are unbound; the
\* objects the previous call built (its Solver, its buffer) still sit in the
\* process until the new call binds its own.
Rerun ==
  /\ pc = "returned"
  /\ run < MaxRuns
  /\ image_zip.valid + image_zip.other <= MaxRerunEntries
  /\ run' = run + 1
  /\ pc' = "start"
  /\ image_paths' = <<>>
  /\ pos' = 0
  /\ predictions' = NoPredictions
  /\ num_submaps' = 0
  /\ num_loops' = 0
  /\ glb_path' = "None"
  /\ result' = NoResult
  /\ raised' = ""
  /\ calls' = <<>>
  /\ handed' = <<>>
  /\ admitted' = <<>>
  /\ UNCHANGED <<gm, buf_id, config, files, _model, tmp_dir, solver, image_names_subset,
                 first_result>>

\* ------------------------------------------------- get_model, step by step
\* What a thread inside get_model leaves alone: everything of run_slam.
run_slam_state ==
  <<config, files, tmp_dir, pc, image_paths, solver, image_names_subset, pos,
    predictions, outputs, raised, calls, handed, admitted, history, buf_id>>

\* line 26: if _model is None
GmCheck(c) ==
  /\ gm.at[c] = "call"
  /\ gm' = [gm EXCEPT !.at[c] = IF _model = "None" THEN "construct"
                                                   ELSE "return"]
  /\ UNCHANGED <<_model, run_slam_state>>

\* lines 27-31: _model = VGGT() binds the global to a new instance
GmConstruct(c) ==
  /\ gm.at[c] = "construct"
  /\ gm' = [gm EXCEPT !.at[c] = "load",
                      !.made = @ + 1,
                      !.bound = gm.made + 1,
                      !.stage[gm.made + 1] = "constructed"]
  /\ _model' = "constructed"
  /\ UNCHANGED run_slam_state

\* line 33: fetch the weights and load them into the instance the global
\* names; the fetch can raise
GmLoad(c) ==
  /\ gm.at[c] = "load"
  /\ \/ /\ gm' = [gm EXCEPT !.at[c] = "to",
                            !.stage[gm.bound] =
                               IF @ = "loaded" THEN "loaded" ELSE "weights"]
        /\ _model' = gm'.stage[gm.bound]
     \/ /\ gm' = [gm EXCEPT !.at[c] = "raised"]
        /\ UNCHANGED _model
  /\ UNCHANGED run_slam_state

\* lines 34-35: eval() and _model = _model.to(_device), on the instance the
\* global names then
GmToDevice(c) ==
  /\ gm.at[c] = "to"
  /\ gm' = [gm EXCEPT !.at[c] = "return",
                      !.stage[gm.bound] =
                         IF @ = "weights" THEN "loaded" ELSE @]
  /\ _model' = gm'.stage[gm.bound]
  /\ UNCHANGED run_slam_state

\* line 37: return _model, _device
GmReturn(c) ==
  /\ gm.at[c] = "return"
  /\ gm' = [gm EXCEPT !.at[c] = "done",
                      !.got[c] = [id |-> gm.bound,
                                  stage |-> gm.stage[gm.bound]]]
  /\ UNCHANGED <<_model, run_slam_state>>

\* ------------------------------------------------ an overlapping invocation
\* From its wipe to the end of its frame loop a run relies on temp_images.
WorkspacePcs == {"glob", "model", "solver"} \cup
                {"for", "gate", "check", "predict", "add_points", "optimize",
                 "homographies", "reset"}

\* lines 67-70 of another invocation of run_slam, in another worker thread:
\* it removes temp_images and creates it again, empty
OtherWipe ==
  /\ pc \in WorkspacePcs
  /\ tmp_dir.owner = "self"
  /\ tmp_dir' = [exists |-> TRUE, valid |-> 0, other |-> 0, owner |-> "other"]
  /\ UNCHANGED <<gm, buf_id, config, files, _model, pc, image_paths, solver,
                 image_names_subset, pos, predictions, outputs, raised, calls,
                 handed, admitted, history>>

\* lines 72-73 of that invocation: it extracts its own archive
OtherExtract ==
  /\ tmp_dir.owner = "other"
  /\ tmp_dir.valid = 0
  /\ \E n \in 1..MaxOtherUpload :
       tmp_dir' = [tmp_dir EXCEPT !.valid = n]
  /\ UNCHANGED <<gm, buf_id, config, files, _model, pc, image_paths, solver,
                 image_names_subset, pos, predictions, outputs, raised, calls,
                 handed, admitted, history>>

\* ---------------------------------------------------------- specifications
Prologue == Extract \/ ListImages \/ GetModel \/ ConstructSolver

Completion ==
  RunPredictions \/ AddPoints \/ Optimize \/ UpdateHomographies \/ ResetBuffer

Epilogue == UpdateAllSubmapVis \/ ReadCounts \/ Export \/ Return \/ Handler

\* one invocation of run_slam as app.py has it
Next ==
  \/ Prologue
  \/ NextImage \/ GateFrame \/ GateFrameUnreadable \/ CheckSubmap
  \/ Completion
  \/ Epilogue

Spec == Init /\ [][Next]_vars

\* one invocation with the loop budget left at the slider's default; the
\* budget decides no branch of run_slam and no frame of a submap
DefaultMaxLoops == 1

InitDefaultLoops == Init /\ max_loops = DefaultMaxLoops

SpecDefaultLoops == InitDefaultLoops /\ [][Next]_vars

\* the interpreter keeps executing run_slam: a step that can be taken is taken
SpecFair == InitDefaultLoops /\ [][Next]_vars /\ WF_vars(Next)

\* invocations one after the other in the same process
NextRerun == Next \/ Rerun

SpecRerun == Init /\ [][NextRerun]_vars

\* one invocation with the switch of line 88 off (the branch of lines 107-108)
InitNoGate == InitCommon /\ use_optical_flow_downsample = FALSE

NextNoGate ==
  \/ Prologue
  \/ NextImage \/ AppendUngated \/ CheckSubmap
  \/ Completion
  \/ Epilogue

SpecNoGate == InitNoGate /\ [][NextNoGate]_vars

\* threads that call get_model while no model is cached yet, as when the
\* module is imported and served without the preload of line 164
NextGetModel ==
  \E c \in Callers :
    GmCheck(c) \/ GmConstruct(c) \/ GmLoad(c) \/ GmToDevice(c) \/ GmReturn(c)

\* no request has brought an upload yet
InitGetModel ==
  /\ Init
  /\ image_zip = [valid |-> 0, other |-> 0]
  /\ max_loops = 0
  /\ min_disparity = 0

SpecGetModel == InitGetModel /\ [][NextGetModel]_vars

\* run_slam while another invocation of it is served: app.py takes no lock
\* and names the same directory in every invocation
NextOverlap == Next \/ OtherWipe \/ OtherExtract

SpecOverlap == Init /\ [][NextOverlap]_vars

\* ------------------------------------------------------------------ claims
Capacity == submap_size + 1

LoopPcs == {"for", "gate", "check", "predict", "add_points", "optimize",
            "homographies", "reset"}

Completed == pc = "returned" /\ result.msg = "completed"

Frames(k) == handed[k].frames

\* C1: a completed run that admitted N >= 1 frames has finalized exactly
\* ceil((N-1)/(C-1)) submaps, C = submap_size + 1, and only the last of them
\* may hold fewer than C frames, wherever the rejected frames fall.
C1_SubmapCount ==
  (Completed /\ Len(admitted) >= 1) =>
    /\ result.num_submaps = CeilDiv(Len(admitted) - 1, Capacity - 1)
    /\ \A k \in 1..Len(solver.submaps) - 1 : Len(solver.submaps[k]) = Capacity

\* C2: of two consecutively finalized submaps the second starts with the last
\* frame of the first and shares no other frame with it, and the buffer
\* still starts with that frame after it has been reset.
C2_Carryover ==
  /\ \A k \in 1..Len(handed) - 1 :
       /\ Frames(k + 1) # <<>>
       /\ Frames(k + 1)[1] = Last(Frames(k))
       /\ SeqRange(Frames(k)) \cap SeqRange(Frames(k + 1)) = {Last(Frames(k))}
       /\ Count(Frames(k + 1), Last(Frames(k))) = 1
  /\ (pc \in {"for", "gate", "check"} /\ handed # <<>>) =>
       /\ image_names_subset # <<>>
       /\ image_names_subset[1] = Last(Frames(Len(handed)))

C2_Witness ==
  /\ Len(handed) = 2
  /\ pc = "check"
  /\ Len(image_names_subset) >= 2

C4_NoValidImages ==
  image_zip.valid = 0 =>
    /\ SeqRange(calls) \subseteq {"extractall"}
    /\ admitted = <<>> /\ handed = <<>> /\ image_names_subset = <<>>
    /\ _model = "None" /\ solver = NewSolver
    /\ (pc = "returned" /\ raised = "") =>
         result = [glb |-> "None", msg |-> "no valid images",
                   num_submaps |-> 0, num_loops |-> 0]

C4_Witness ==
  /\ pc = "returned"
  /\ image_zip.valid = 0
  /\ image_zip.other = 1
  /\ result.msg = "no valid images"

\* C5: once a call has raised, it stays the last call of the run, and the
\* run returns no artifact, the error message and no count.
C5_FailureIsFatal ==
  /\ raised # "" =>
       /\ pc \in {"except", "returned"}
       /\ Last(calls) = raised
       /\ raised # "export_3d_scene" => "export_3d_scene" \notin SeqRange(calls)
       /\ pc = "returned" =>
            result = [glb |-> "None", msg |-> "error",
                      num_submaps |-> 0, num_loops |-> 0]
  /\ pc = "except" => raised # ""
  /\ result.glb # "None" => raised = ""

C5_Witness ==
  /\ pc = "returned"
  /\ raised = "optimize"
  /\ Len(solver.submaps) = 2
  /\ result.msg = "error"

\* C6: one image in the middle of the stream that does not decode does not
\* abort the run: the gate's failure on it is not what ends the run.
C6_MalformedSkipped ==
  (\E k \in 2..Len(image_paths) - 1 : files[k] = Garbage) =>
    raised # "compute_disparity"

\* C7: a run that completes has refreshed the visualization once, then
\* exported once, then returned the counts of the map and the graph, and
\* neither the refresh nor the export happens before the last image has been
\* consumed and the last submap has gone through its completion sequence.
C7_Finalization ==
  /\ Count(calls, "update_all_submap_vis") <= 1
  /\ Count(calls, "export_3d_scene") <= 1
  /\ "update_all_submap_vis" \in SeqRange(calls) =>
       /\ pos = Len(image_paths)
       /\ pc \notin LoopPcs
       /\ solver.propagated = Len(handed)
       /\ solver.optimized = Len(handed)
       /\ Len(solver.submaps) = Len(handed)
  /\ "export_3d_scene" \in SeqRange(calls) =>
       /\ Last(calls) = "export_3d_scene"
       /\ "update_all_submap_vis" \in SeqRange(SubSeq(calls, 1, Len(calls) - 1))
  /\ Completed =>
       /\ Count(calls, "update_all_submap_vis") = 1
       /\ Count(calls, "export_3d_scene") = 1
       /\ Last(calls) = "export_3d_scene"
       /\ result = [glb |-> "scene.glb", msg |-> "completed",
                    num_submaps |-> Len(solver.submaps),
                    num_loops |-> solver.loops]
  /\ result.msg = "completed" => pc = "returned"

C7_Witness ==
  /\ Completed
  /\ result.num_submaps = 3
  /\ Len(admitted) < Len(image_paths)

C9_Repeatable ==
  /\ (run >= 2 /\ pc = "for" /\ pos = 0) =>
       solver = NewSolver /\ image_names_subset = <<>>
  /\ (run >= 2 /\ Completed /\ first_result.msg = "completed") =>
       /\ result.num_submaps = first_result.num_submaps
       /\ result.num_loops = first_result.num_loops

C9_Witness ==
  /\ run = 2
  /\ Completed
  /\ first_result.msg = "completed"
  /\ result.num_submaps = 2
  /\ result.num_loops = 1
  /\ Len(admitted) < Len(image_paths)

\* C10: every submap is handed to run_predictions with the caller's
\* max_loops, so (each submap adding at most that many edges) the loop count
\* is at most max_loops times the submap count, and 0 when max_loops is 0.
C10_LoopBudget ==
  /\ \A k \in 1..Len(handed) : handed[k].max_loops = max_loops
  /\ predictions.loops <= max_loops
  /\ solver.loops <= max_loops * Len(solver.submaps)
  /\ max_loops = 0 => solver.loops = 0
  /\ Completed =>
       /\ result.num_loops <= max_loops * result.num_submaps
       /\ max_loops = 0 => result.num_loops = 0

C10_Witness ==
  /\ Completed
  /\ max_loops = 2
  /\ result.num_submaps = 3
  /\ result.num_loops = 3

StreamPcs == {"for", "gate", "check"}

\* C11: the calls of a completion sequence follow one another directly, in
\* the order run_predictions, add_points, optimize,
\* update_submap_homographies, once per finalized submap, so whenever the
\* driver is about to consume a frame every ingest has been optimized and
\* propagated.
C11_CompletionSequence ==
  /\ \A i \in 1..Len(calls) :
       /\ calls[i] = "add_points" =>
            i > 1 /\ calls[i - 1] = "run_predictions"
       /\ calls[i] = "optimize" =>
            i > 1 /\ calls[i - 1] = "add_points"
       /\ calls[i] = "update_submap_homographies" =>
            i > 1 /\ calls[i - 1] = "optimize"
       /\ (i > 1 /\ calls[i - 1] \in {"run_predictions", "add_points",
                                     "optimize"}) =>
            calls[i] \in {"add_points", "optimize",
                          "update_submap_homographies"}
  /\ pc \in StreamPcs =>
       /\ Count(calls, "run_predictions") = Len(handed)
       /\ Count(calls, "add_points") = Len(handed)
       /\ Count(calls, "optimize") = Len(handed)
       /\ Count(calls, "update_submap_homographies") = Len(handed)
       /\ Len(solver.submaps) = Len(handed)
       /\ solver.optimized = Len(handed)
       /\ solver.propagated = Len(handed)

C11_Witness ==
  /\ pc = "gate"
  /\ Len(handed) = 2
  /\ Count(calls, "optimize") = 2

\* C12: after the gate has decided on a raw frame a submap is finalized if
\* and only if the buffer holds submap_size + 1 frames or the frame is the
\* last of the stream; at most one submap is finalized per raw frame; what
\* the buffer holds at the end of the stream is flushed, a single frame
\* included, and the map receives the frames as they were handed over.
C12_FinalizeRule ==
  /\ [][/\ pc = "check" =>
             (pc' = "predict" <=>
                (Len(image_names_subset) = Capacity \/ pos = Len(image_paths)))
        /\ pc' = "predict" => pc = "check"
        /\ handed' # handed =>
             /\ pc = "predict"
             /\ handed' = Append(handed, [frames |-> image_names_subset,
                                          max_loops |-> max_loops,
                                          obj |-> buf_id])]_vars
  /\ [](/\ Len(handed) <= pos
        /\ \A k \in 1..Len(solver.submaps) : solver.submaps[k] = Frames(k)
        /\ pc = "vis" =>
             /\ handed # <<>>
             /\ Last(admitted) = Last(Frames(Len(handed)))
             /\ image_names_subset = <<Last(admitted)>>)

C12_Witness ==
  /\ pc = "vis"
  /\ Len(handed) = 2
  /\ Len(Frames(1)) = Capacity
  /\ Len(Frames(2)) = 1
  /\ solver.submaps[2] = Frames(2)
  /\ pos = Len(image_paths)

\* C13: the first raw frame of a run is admitted and becomes the anchor; a
\* later frame is admitted, and becomes the anchor, if and only if its
\* disparity against the last admitted frame is at least min_disparity; a
\* rejected frame leaves anchor and buffer as they were.
C13_GateRule ==
  /\ [][(pc = "gate" /\ pc' = "check") =>
          LET img == files'[image_name]
              admit == \/ admitted = <<>>
                       \/ Disparity(files[Last(admitted)], img) >= min_disparity
          IN  /\ admit =>
                   /\ admitted' = Append(admitted, image_name)
                   /\ image_names_subset' =
                        Append(image_names_subset, image_name)
                   /\ solver'.last_kf = <<image_name>>
              /\ ~admit =>
                   UNCHANGED <<admitted, image_names_subset, solver>>]_vars
  /\ [](/\ (admitted # <<>> /\ pc \in LoopPcs) =>
             /\ solver.last_kf = <<Last(admitted)>>
             /\ admitted[1] = image_paths[1]
        /\ (pc \in LoopPcs /\ pos >= 1 /\ pc # "gate") => admitted # <<>>
        /\ \A k \in 2..Len(admitted) :
             Disparity(files[admitted[k - 1]], files[admitted[k]])
               >= min_disparity)

C13_Witness ==
  /\ pc = "check"
  /\ min_disparity = 1
  /\ Len(admitted) >= 3
  /\ pos = Len(admitted) + 2
  /\ Last(admitted) = image_paths[pos]

StrictlyIncreasing(s) == \A i \in 1..Len(s) - 1 : s[i] < s[i + 1]

\* C14: the stream is the images in the order of their numbers; the admitted
\* frames and the frames of every submap are in strictly increasing stream
\* order; no frame of a submap precedes a frame of the submap before it;
\* only admitted frames are in a submap; and the map receives the submaps in
\* the order in which they were finalized.
C14_OrderPreserved ==
  /\ pc \notin {"start", "glob"} =>
       \A i \in 1..Len(image_paths) : image_paths[i] = i
  /\ StrictlyIncreasing(admitted)
  /\ pc \in LoopPcs => StrictlyIncreasing(image_names_subset)
  /\ \A k \in 1..Len(handed) :
       /\ StrictlyIncreasing(Frames(k))
       /\ SeqRange(Frames(k)) \subseteq SeqRange(admitted)
       /\ k < Len(handed) =>
            \A a \in SeqRange(Frames(k)), b \in SeqRange(Frames(k + 1)) : a <= b
  /\ Len(solver.submaps) <= Len(handed)
  /\ \A k \in 1..Len(solver.submaps) : solver.submaps[k] = Frames(k)
  /\ SeqRange(admitted) \subseteq SeqRange(image_paths)

C14_Witness ==
  /\ pc = "optimize"
  /\ Len(solver.submaps) = 2
  /\ Len(Frames(2)) >= 3
  /\ Len(admitted) < pos
  /\ admitted[2] > 2

\* The states of a run: STREAMING from the call to the end of the loop while
\* no submap is being processed, PROCESSING_SUBMAP for lines 113-118,
\* FINALIZING for lines 120-126, DONE once the result is returned, FAILED from
\* a raise (or the empty archive) on.
Phase ==
  IF pc \in {"start", "glob", "model", "solver"} \cup StreamPcs
    THEN "STREAMING"
  ELSE IF pc \in {"predict", "add_points", "optimize", "homographies", "reset"}
    THEN "PROCESSING_SUBMAP"
  ELSE IF pc \in {"vis", "counts", "export", "return"}
    THEN "FINALIZING"
  ELSE IF pc = "returned" /\ result.msg = "completed"
    THEN "DONE"
  ELSE "FAILED"

PhaseSteps ==
  {<<"STREAMING", "STREAMING">>, <<"STREAMING", "PROCESSING_SUBMAP">>,
   <<"PROCESSING_SUBMAP", "PROCESSING_SUBMAP">>,
   <<"PROCESSING_SUBMAP", "STREAMING">>, <<"STREAMING", "FINALIZING">>,
   <<"FINALIZING", "FINALIZING">>, <<"FINALIZING", "DONE">>,
   <<"STREAMING", "FAILED">>, <<"PROCESSING_SUBMAP", "FAILED">>,
   <<"FINALIZING", "FAILED">>, <<"FAILED", "FAILED">>}

\* C15: a run moves only along STREAMING -> (PROCESSING_SUBMAP -> STREAMING)*
\* -> FINALIZING -> DONE, or to FAILED on an error; it enters FINALIZING only
\* when the last image has been consumed and its submap processed; nothing
\* happens after the return; and every run returns, DONE or FAILED.
C15_StateMachine ==
  /\ [][/\ <<Phase, Phase'>> \in PhaseSteps
        /\ (Phase' = "FINALIZING" /\ Phase # "FINALIZING") =>
             /\ image_paths # <<>>
             /\ pos = Len(image_paths)
             /\ handed # <<>>
             /\ Len(solver.submaps) = Len(handed)
             /\ solver.propagated = Len(handed)
        /\ (Phase' = "FAILED" /\ Phase # "FAILED") =>
             (raised' # "" \/ result'.msg = "no valid images")
        /\ pc # "returned"]_vars
  /\ <>(pc = "returned" /\ Phase \in {"DONE", "FAILED"})

C15_Witness ==
  /\ Phase = "DONE"
  /\ Len(handed) = 3
  /\ Len(admitted) < Len(image_paths)

\* The frames of the submaps from the k-th on, each without its first frame.
RECURSIVE TailsFrom(_, _)
TailsFrom(subs, k) ==
  IF k > Len(subs) THEN <<>> ELSE Tail(subs[k]) \o TailsFrom(subs, k + 1)

\* The submaps put end to end, the carryover of each counted once.
Stitched(subs) == IF subs = <<>> THEN <<>> ELSE subs[1] \o TailsFrom(subs, 2)

Holders(f) == {k \in 1..Len(solver.submaps) : f \in SeqRange(solver.submaps[k])}

\* C19: when a run is done, the submaps of the map, each after the first
\* without its first frame, put end to end are exactly the admitted frames;
\* every admitted frame is in one submap, or in two consecutive ones as the
\* last frame of the one and the first of the other.
C19_NoFrameLost ==
  Completed =>
    /\ Stitched(solver.submaps) = admitted
    /\ \A f \in SeqRange(admitted) :
         /\ Cardinality(Holders(f)) \in {1, 2}
         /\ Cardinality(Holders(f)) = 2 =>
              \E k \in 1..Len(solver.submaps) - 1 :
                /\ Holders(f) = {k, k + 1}
                /\ Last(solver.submaps[k]) = f
                /\ solver.submaps[k + 1][1] = f
    /\ \A k \in 1..Len(solver.submaps) :
         \A f \in SeqRange(solver.submaps[k]) : Count(solver.submaps[k], f) = 1

C19_Witness ==
  /\ Completed
  /\ Len(solver.submaps) = 3
  /\ Len(admitted) = 9
  /\ Len(image_paths) = 10
  /\ Cardinality(Holders(9)) = 2

\* C18: the list handed to run_predictions holds the frames it was handed
\* over with for as long as the buffer still names it; the reset binds the
\* buffer to another list, so that every push lands in a list that was never
\* handed over, no two submaps share a list, and the map keeps the frames of
\* every submap as they were handed over.
C18_FinalizedImmutable ==
  /\ \A k \in 1..Len(handed) :
       handed[k].obj = buf_id => image_names_subset = Frames(k)
  /\ pc \in StreamPcs => \A k \in 1..Len(handed) : handed[k].obj # buf_id
  /\ \A j, k \in 1..Len(handed) : j < k => handed[j].obj # handed[k].obj
  /\ \A k \in 1..Len(solver.submaps) : solver.submaps[k] = Frames(k)

C18_Witness ==
  /\ pc = "for"
  /\ Len(handed) = 2
  /\ Len(Frames(1)) = Capacity
  /\ Len(Frames(2)) = Capacity
  /\ image_names_subset = <<Last(Frames(2))>>
  /\ solver.submaps[1] = Frames(1)
  /\ buf_id = 3

\* C17: under any interleaving of callers of get_model at most one instance
\* of the model is made, every caller that returns holds a model that is
\* loaded and on the device, and all of them hold the same instance.
C17_InitializedOnce ==
  /\ gm.made <= 1
  /\ \A c \in Callers :
       gm.at[c] = "done" => gm.got[c].stage = "loaded"
  /\ \A c, d \in Callers :
       (gm.at[c] = "done" /\ gm.at[d] = "done") => gm.got[c].id = gm.got[d].id

\* C16: from its wipe to the end of its frame loop a run has the scratch
\* directory to itself: what is in it is what the run extracted from its own
\* archive, and the images the run processes are the valid images of that
\* archive, also while another invocation is served.
C16_ExclusiveWorkspace ==
  /\ pc \in WorkspacePcs =>
       /\ tmp_dir.owner = "self"
       /\ tmp_dir.valid = image_zip.valid
       /\ tmp_dir.other = image_zip.other
  /\ pc \in (WorkspacePcs \ {"glob"}) =>
       image_paths = [k \in 1..image_zip.valid |-> k]
====
